---- MODULE Spec2Model ----
(***************************************************************************)
(* The relationship registry of bevy_ecs (crates/bevy_ecs/src/component/   *)
(* mod.rs): the `Relationships` struct, its constructor and its methods.   *)
(* Vec indices are 0-based in the source and 1-based here, so the element  *)
(* of a Vec v at index i is v[i + 1].  Option<T> is a sequence of length   *)
(* at most one: None is << >> and Some(x) is << x >>.  A HashMap is a      *)
(* function whose DOMAIN is the set of keys present.                       *)
(***************************************************************************)
EXTENDS Integers, Sequences, FiniteSets, TLC

VARIABLES
    this,      \* the Relationships value (one record, a field per struct field)
    panicked,  \* TRUE once a call has panicked; the registry is not used again
    last,      \* the most recent call: its name, arguments and outcome
    prev,      \* the call before `last`, when it was the same method on the same key
    interned,  \* for every key interned: the id the inserting call returned
               \* and the descriptor it was given
    first_component, \* type key -> outcome of the first component wrapper call
    first_resource   \* type key -> outcome of the first resource wrapper call

vars == <<this, panicked, last, prev, interned, first_component, first_resource>>

(***************************************************************************)
(* Bound of the model: the number of entries the three Vecs of the         *)
(* registry hold together (Default::default makes four of them).           *)
(***************************************************************************)
MaxSize == 8

(***************************************************************************)
(* Inputs.                                                                 *)
(***************************************************************************)
HasComponent == "HasComponent"
HasResource == "HasResource"
UserTypes == {"A"}
TypeIds == {HasComponent, HasResource} \cup UserTypes
Entities == {"e1"}

None == << >>
Some(x) == << x >>

\* HashMap::get
MapGet(m, k) == IF k \in DOMAIN m THEN Some(m[k]) ELSE None
\* HashMap::insert: adds the key or overwrites its value
MapInsert(m, k, v) == [x \in DOMAIN m \cup {k} |-> IF x = k THEN v ELSE m[x]]
EmptyMap == [x \in {} |-> 0]

(***************************************************************************)
(* Type descriptors.                                                       *)
(***************************************************************************)
Layout(size, align) == [size |-> size, align |-> align]

\* Layout::new::<T>() of the types the model registers
LayoutOf(T) ==
    CASE T = "A" -> Layout(12, 4)
      [] T = "B" -> Layout(8, 8)
      [] OTHER -> Layout(0, 1)

\* TypeInfo::of::<T>()
TypeInfo_of(T) ==
    [type_id |-> T, type_name |-> T, is_send_and_sync |-> TRUE,
     layout |-> LayoutOf(T), drop |-> <<"drop_ptr", T>>]

\* TypeInfo::of_non_send_and_sync::<T>()
TypeInfo_of_non_send_and_sync(T) ==
    [type_id |-> T, type_name |-> T, is_send_and_sync |-> FALSE,
     layout |-> LayoutOf(T), drop |-> <<"drop_ptr", T>>]

\* impl From<TypeInfo> for DataLayout
DataLayout_from(type_info) ==
    [name |-> type_info.type_name,
     storage_type |-> "Table",
     is_send_and_sync |-> type_info.is_send_and_sync,
     type_id |-> Some(type_info.type_id),
     layout |-> type_info.layout,
     drop |-> type_info.drop]

\* DataLayout::new (raw parts; name is an Option<String>)
DataLayout_new(name, storage_type, is_send_and_sync, layout, drop) ==
    [name |-> IF name = None THEN "" ELSE name[1],
     storage_type |-> storage_type,
     is_send_and_sync |-> is_send_and_sync,
     type_id |-> None,
     layout |-> layout,
     drop |-> drop]

\* DataLayout::from_generic::<T>(storage_type)
DataLayout_from_generic(T, storage_type) ==
    [name |-> T,
     storage_type |-> storage_type,
     is_send_and_sync |-> TRUE,
     type_id |-> Some(T),
     layout |-> LayoutOf(T),
     drop |-> <<"drop_ptr", T>>]

(***************************************************************************)
(* Keys.                                                                   *)
(***************************************************************************)
DummyTarget(dummy_id) == [tag |-> "DummyId", id |-> dummy_id]
EntityTarget(e) == [tag |-> "Entity", id |-> e]

\* Relship::new
Relship(kind, target) == [kind |-> kind, target |-> target]

(***************************************************************************)
(* Methods of Relationships.  A method taking &mut self is an operator     *)
(* from the value before the call to a record holding the value after the  *)
(* call (self), what it returns (ret) and whether it panicked (panic).     *)
(***************************************************************************)

\* the struct literal at the top of Default::default
EmptyRelationships ==
    [relationships |-> << >>,
     relationship_indices |-> EmptyMap,
     kinds |-> << >>,
     kind_indices |-> EmptyMap,
     dummy_id_to_type_id |-> << >>,
     type_id_to_dummy_id |-> EmptyMap]

\* new_relationship_kind returning the kind a category already has
new_relationship_kind_dedup(self, dummy_id) ==
    IF dummy_id \in DOMAIN self.kind_indices
    THEN [self |-> self, ret |-> self.kind_indices[dummy_id], panic |-> FALSE]
    ELSE LET id == Len(self.kinds) IN
         [self |-> [self EXCEPT
                      !.kind_indices = MapInsert(@, dummy_id, id),
                      !.kinds = Append(@, [id |-> id])],
          ret |-> id,
          panic |-> FALSE]

new_relationship_kind(self, dummy_id) ==
    LET id == Len(self.kinds) IN
    [self |-> [self EXCEPT
                 !.kind_indices = MapInsert(@, dummy_id, id),
                 !.kinds = Append(@, [id |-> id])],
     ret |-> id,
     panic |-> FALSE]

\* new_dummy_id without the assert on the previous entry of the type key
new_dummy_id_no_assert(self, type_id) ==
    LET dummy_id == Len(self.dummy_id_to_type_id)
        pushed == [self EXCEPT !.dummy_id_to_type_id =
                       Append(@, [rust_type |-> type_id, id |-> dummy_id])]
    IN  IF type_id # None
        THEN [self |-> [pushed EXCEPT !.type_id_to_dummy_id =
                           MapInsert(@, type_id[1], dummy_id)],
              ret |-> dummy_id,
              panic |-> FALSE]
        ELSE [self |-> pushed, ret |-> dummy_id, panic |-> FALSE]

\* new_dummy_id taking the id after the push
new_dummy_id_after_push(self, type_id) ==
    LET dummy_id == Len(self.dummy_id_to_type_id) + 1
        pushed == [self EXCEPT !.dummy_id_to_type_id =
                       Append(@, [rust_type |-> type_id, id |-> dummy_id])]
    IN  IF type_id # None
        THEN LET previously_inserted == MapGet(self.type_id_to_dummy_id, type_id[1])
             IN  [self |-> [pushed EXCEPT !.type_id_to_dummy_id =
                                MapInsert(@, type_id[1], dummy_id)],
                  ret |-> dummy_id,
                  panic |-> previously_inserted # None]
        ELSE [self |-> pushed, ret |-> dummy_id, panic |-> FALSE]

\* new_dummy_id taking the next id from the length of the wrong Vec
new_dummy_id_wrong_len(self, type_id) ==
    LET dummy_id == Len(self.relationships)
        pushed == [self EXCEPT !.dummy_id_to_type_id =
                       Append(@, [rust_type |-> type_id, id |-> dummy_id])]
    IN  IF type_id # None
        THEN LET previously_inserted == MapGet(self.type_id_to_dummy_id, type_id[1])
             IN  [self |-> [pushed EXCEPT !.type_id_to_dummy_id =
                                MapInsert(@, type_id[1], dummy_id)],
                  ret |-> dummy_id,
                  panic |-> previously_inserted # None]
        ELSE [self |-> pushed, ret |-> dummy_id, panic |-> FALSE]

new_dummy_id(self, type_id) ==
    LET dummy_id == Len(self.dummy_id_to_type_id)
        pushed == [self EXCEPT !.dummy_id_to_type_id =
                       Append(@, [rust_type |-> type_id, id |-> dummy_id])]
    IN  IF type_id # None
        THEN LET previously_inserted == MapGet(self.type_id_to_dummy_id, type_id[1])
             IN  [self |-> [pushed EXCEPT !.type_id_to_dummy_id =
                                MapInsert(@, type_id[1], dummy_id)],
                  ret |-> dummy_id,
                  panic |-> previously_inserted # None]
        ELSE [self |-> pushed, ret |-> dummy_id, panic |-> FALSE]

type_id_to_dummy_id(self, type_id) == MapGet(self.type_id_to_dummy_id, type_id)

\* Default::default registering both kinds on the has-component category
Relationships_default_same_category ==
    LET c1 == new_dummy_id(EmptyRelationships, Some(HasComponent))
        k1 == new_relationship_kind(c1.self, c1.ret)
        c2 == new_dummy_id(k1.self, Some(HasResource))
        k2 == new_relationship_kind(c2.self, c1.ret)
    IN  k2.self

\* impl Default for Relationships
Relationships_default ==
    LET c1 == new_dummy_id(EmptyRelationships, Some(HasComponent))
        k1 == new_relationship_kind(c1.self, c1.ret)
        c2 == new_dummy_id(k1.self, Some(HasResource))
        k2 == new_relationship_kind(c2.self, c2.ret)
    IN  k2.self

\* indexing a HashMap with [] panics when the key is absent
relkind_of_has_component(self) ==
    IF HasComponent \notin DOMAIN self.type_id_to_dummy_id
    THEN [panic |-> TRUE, ret |-> 0]
    ELSE LET has_component_id == self.type_id_to_dummy_id[HasComponent] IN
         IF has_component_id \notin DOMAIN self.kind_indices
         THEN [panic |-> TRUE, ret |-> 0]
         ELSE [panic |-> FALSE, ret |-> self.kind_indices[has_component_id]]

relkind_of_has_resource(self) ==
    IF HasResource \notin DOMAIN self.type_id_to_dummy_id
    THEN [panic |-> TRUE, ret |-> 0]
    ELSE LET has_resource_id == self.type_id_to_dummy_id[HasResource] IN
         IF has_resource_id \notin DOMAIN self.kind_indices
         THEN [panic |-> TRUE, ret |-> 0]
         ELSE [panic |-> FALSE, ret |-> self.kind_indices[has_resource_id]]

len(self) == Len(self.relationships)

is_empty(self) == Len(self.relationships) = 0

get_relationship_id(self, relationship) ==
    MapGet(self.relationship_indices, relationship)

get_relationship_info(self, id) ==
    IF id \in 0 .. (Len(self.relationships) - 1)
    THEN Some(self.relationships[id + 1])
    ELSE None

\* what a read outside the Vec can give: anything
GarbageInfo ==
    [id |-> -1, relationship |-> Relship(-1, DummyTarget(-1)), data |-> "garbage"]

\* The set of outcomes of get_relationship_info_unchecked.  In bounds it is
\* the element.  Out of bounds a debug build fails the debug_assert and a
\* release build reads outside the Vec (undefined behaviour).
get_relationship_info_unchecked(self, id) ==
    IF id \in 0 .. (Len(self.relationships) - 1)
    THEN {[panic |-> FALSE, info |-> self.relationships[id + 1]]}
    ELSE {[panic |-> TRUE, info |-> GarbageInfo]}
         \cup {[panic |-> FALSE, info |-> GarbageInfo]}
         \cup {[panic |-> FALSE, info |-> self.relationships[i]] :
                  i \in 1 .. Len(self.relationships)}

Ok(info) == [tag |-> "Ok", val |-> info]
RelationshipAlreadyExists(relationship) ==
    [error |-> "RelationshipAlreadyExists", relationship |-> relationship]
Err(e) == [tag |-> "Err", val |-> e]

\* register_relationship answering an occupied entry with the info it holds
register_relationship_returns_existing(self, relationship, comp_descriptor) ==
    LET rel_id == Len(self.relationships) IN
    IF relationship \in DOMAIN self.relationship_indices
    THEN [self |-> self,
          rets |-> {[panic |-> o.panic, ret |-> Ok(o.info)] :
                      o \in get_relationship_info_unchecked(
                               self, self.relationship_indices[relationship])}]
    ELSE LET after == [self EXCEPT
                         !.relationship_indices = MapInsert(@, relationship, rel_id),
                         !.relationships = Append(@, [id |-> rel_id,
                                                     relationship |-> relationship,
                                                     data |-> comp_descriptor])]
         IN  [self |-> after,
              rets |-> {[panic |-> o.panic, ret |-> Ok(o.info)] :
                          o \in get_relationship_info_unchecked(after, rel_id)}]

\* register_relationship pushing the info before it looks at the entry
register_relationship_push_first(self, relationship, comp_descriptor) ==
    LET rel_id == Len(self.relationships)
        pushed == [self EXCEPT
                     !.relationships = Append(@, [id |-> rel_id,
                                                 relationship |-> relationship,
                                                 data |-> comp_descriptor])]
    IN  IF relationship \in DOMAIN self.relationship_indices
        THEN [self |-> pushed,
              rets |-> {[panic |-> FALSE,
                         ret |-> Err(RelationshipAlreadyExists(relationship))]}]
        ELSE LET after == [pushed EXCEPT
                             !.relationship_indices =
                                 MapInsert(@, relationship, rel_id)]
             IN  [self |-> after,
                  rets |-> {[panic |-> o.panic, ret |-> Ok(o.info)] :
                              o \in get_relationship_info_unchecked(after, rel_id)}]

\* register_relationship reading the info back at the length after the push
register_relationship_len_after_push(self, relationship, comp_descriptor) ==
    LET rel_id == Len(self.relationships) IN
    IF relationship \in DOMAIN self.relationship_indices
    THEN [self |-> self,
          rets |-> {[panic |-> FALSE,
                     ret |-> Err(RelationshipAlreadyExists(relationship))]}]
    ELSE LET after == [self EXCEPT
                         !.relationship_indices = MapInsert(@, relationship, rel_id),
                         !.relationships = Append(@, [id |-> rel_id,
                                                     relationship |-> relationship,
                                                     data |-> comp_descriptor])]
         IN  [self |-> after,
              rets |-> {[panic |-> o.panic, ret |-> Ok(o.info)] :
                          o \in get_relationship_info_unchecked(
                                   after, Len(after.relationships))}]

\* register_relationship without the Entry::Occupied check
register_relationship_overwrite(self, relationship, comp_descriptor) ==
    LET rel_id == Len(self.relationships)
        after == [self EXCEPT
                    !.relationship_indices = MapInsert(@, relationship, rel_id),
                    !.relationships = Append(@, [id |-> rel_id,
                                                relationship |-> relationship,
                                                data |-> comp_descriptor])]
    IN  [self |-> after,
         rets |-> {[panic |-> o.panic, ret |-> Ok(o.info)] :
                     o \in get_relationship_info_unchecked(after, rel_id)}]

\* register_relationship taking the index of the last element as the new id
register_relationship_last_index(self, relationship, comp_descriptor) ==
    LET rel_id == IF Len(self.relationships) = 0
                  THEN 0 ELSE Len(self.relationships) - 1 IN
    IF relationship \in DOMAIN self.relationship_indices
    THEN [self |-> self,
          rets |-> {[panic |-> FALSE,
                     ret |-> Err(RelationshipAlreadyExists(relationship))]}]
    ELSE LET after == [self EXCEPT
                         !.relationship_indices = MapInsert(@, relationship, rel_id),
                         !.relationships = Append(@, [id |-> rel_id,
                                                     relationship |-> relationship,
                                                     data |-> comp_descriptor])]
         IN  [self |-> after,
              rets |-> {[panic |-> o.panic, ret |-> Ok(o.info)] :
                          o \in get_relationship_info_unchecked(after, rel_id)}]

\* rets is the set of values the call can return
register_relationship(self, relationship, comp_descriptor) ==
    LET rel_id == Len(self.relationships) IN
    IF relationship \in DOMAIN self.relationship_indices
    THEN [self |-> self,
          rets |-> {[panic |-> FALSE,
                     ret |-> Err(RelationshipAlreadyExists(relationship))]}]
    ELSE LET after == [self EXCEPT
                         !.relationship_indices = MapInsert(@, relationship, rel_id),
                         !.relationships = Append(@, [id |-> rel_id,
                                                     relationship |-> relationship,
                                                     data |-> comp_descriptor])]
         IN  [self |-> after,
              rets |-> {[panic |-> o.panic, ret |-> Ok(o.info)] :
                          o \in get_relationship_info_unchecked(after, rel_id)}]

\* get_relationship_info_or_insert_with reading the info at rel_id, the
\* length before the call, in place of the id the entry holds
get_relationship_info_or_insert_with_fresh_id(self, relationship, data_layout) ==
    LET vacant == relationship \notin DOMAIN self.relationship_indices
        rel_id == Len(self.relationships)
        after == IF vacant
                 THEN [self EXCEPT
                         !.relationships = Append(@, [id |-> rel_id,
                                                     relationship |-> relationship,
                                                     data |-> DataLayout_from(data_layout)]),
                         !.relationship_indices = MapInsert(@, relationship, rel_id)]
                 ELSE self
    IN  [self |-> after,
         calls |-> IF vacant THEN 1 ELSE 0,
         rets |-> {[panic |-> o.panic, ret |-> o.info] :
                     o \in get_relationship_info_unchecked(after, rel_id)}]

\* get_relationship_info_or_insert_with storing the descriptor of the
\* closure in an occupied entry too
get_relationship_info_or_insert_with_replace(self, relationship, data_layout) ==
    LET vacant == relationship \notin DOMAIN self.relationship_indices
        rel_id == Len(self.relationships)
        after == IF vacant
                 THEN [self EXCEPT
                         !.relationships = Append(@, [id |-> rel_id,
                                                     relationship |-> relationship,
                                                     data |-> DataLayout_from(data_layout)]),
                         !.relationship_indices = MapInsert(@, relationship, rel_id)]
                 ELSE [self EXCEPT
                         !.relationships[self.relationship_indices[relationship] + 1].data =
                             DataLayout_from(data_layout)]
        id == after.relationship_indices[relationship]
    IN  [self |-> after,
         calls |-> 1,
         rets |-> {[panic |-> o.panic, ret |-> o.info] :
                     o \in get_relationship_info_unchecked(after, id)}]

\* get_relationship_info_or_insert_with building the descriptor before it
\* looks the key up (or_insert(f()) in place of or_insert_with(f))
get_relationship_info_or_insert_with_eager(self, relationship, data_layout) ==
    LET vacant == relationship \notin DOMAIN self.relationship_indices
        rel_id == Len(self.relationships)
        after == IF vacant
                 THEN [self EXCEPT
                         !.relationships = Append(@, [id |-> rel_id,
                                                     relationship |-> relationship,
                                                     data |-> DataLayout_from(data_layout)]),
                         !.relationship_indices = MapInsert(@, relationship, rel_id)]
                 ELSE self
        id == after.relationship_indices[relationship]
    IN  [self |-> after,
         calls |-> 1,
         rets |-> {[panic |-> o.panic, ret |-> o.info] :
                     o \in get_relationship_info_unchecked(after, id)}]

\* get_relationship_info_or_insert_with storing the length after the push
\* as the id of the info
get_relationship_info_or_insert_with_wrong_id(self, relationship, data_layout) ==
    LET vacant == relationship \notin DOMAIN self.relationship_indices
        rel_id == Len(self.relationships)
        after == IF vacant
                 THEN [self EXCEPT
                         !.relationships = Append(@, [id |-> rel_id + 1,
                                                     relationship |-> relationship,
                                                     data |-> DataLayout_from(data_layout)]),
                         !.relationship_indices = MapInsert(@, relationship, rel_id)]
                 ELSE self
        id == after.relationship_indices[relationship]
    IN  [self |-> after,
         calls |-> IF vacant THEN 1 ELSE 0,
         rets |-> {[panic |-> o.panic, ret |-> o.info] :
                     o \in get_relationship_info_unchecked(after, id)}]

\* data_layout is the TypeInfo the closure returns; calls counts how often
\* the closure is invoked
get_relationship_info_or_insert_with(self, relationship, data_layout) ==
    LET vacant == relationship \notin DOMAIN self.relationship_indices
        rel_id == Len(self.relationships)
        after == IF vacant
                 THEN [self EXCEPT
                         !.relationships = Append(@, [id |-> rel_id,
                                                     relationship |-> relationship,
                                                     data |-> DataLayout_from(data_layout)]),
                         !.relationship_indices = MapInsert(@, relationship, rel_id)]
                 ELSE self
        id == after.relationship_indices[relationship]
    IN  [self |-> after,
         calls |-> IF vacant THEN 1 ELSE 0,
         rets |-> {[panic |-> o.panic, ret |-> o.info] :
                     o \in get_relationship_info_unchecked(after, id)}]

\* get_resource_info_or_insert_with asking for the has-component kind
get_resource_info_or_insert_with_component_kind(self, type_id, data_layout) ==
    LET found == type_id_to_dummy_id(self, type_id)
        alloc == new_dummy_id(self, Some(type_id))
        self1 == IF found # None THEN self ELSE alloc.self
        component_id == IF found # None THEN found[1] ELSE alloc.ret
        kind == relkind_of_has_component(self1)
        key == Relship(kind.ret, DummyTarget(component_id))
        r == get_relationship_info_or_insert_with(self1, key, data_layout)
    IN  IF found = None /\ alloc.panic
        THEN [self |-> alloc.self, calls |-> 0, allocs |-> 1, key |-> None,
              rets |-> {[panic |-> TRUE, ret |-> GarbageInfo]}]
        ELSE IF kind.panic
        THEN [self |-> self1, calls |-> 0,
              allocs |-> IF found = None THEN 1 ELSE 0, key |-> None,
              rets |-> {[panic |-> TRUE, ret |-> GarbageInfo]}]
        ELSE [self |-> r.self, calls |-> r.calls,
              allocs |-> IF found = None THEN 1 ELSE 0, key |-> Some(key),
              rets |-> r.rets]

\* allocs counts the calls of new_dummy_id; key is the Relship looked up
get_resource_info_or_insert_with(self, type_id, data_layout) ==
    LET found == type_id_to_dummy_id(self, type_id)
        alloc == new_dummy_id(self, Some(type_id))
        self1 == IF found # None THEN self ELSE alloc.self
        component_id == IF found # None THEN found[1] ELSE alloc.ret
        kind == relkind_of_has_resource(self1)
        key == Relship(kind.ret, DummyTarget(component_id))
        r == get_relationship_info_or_insert_with(self1, key, data_layout)
    IN  IF found = None /\ alloc.panic
        THEN [self |-> alloc.self, calls |-> 0, allocs |-> 1, key |-> None,
              rets |-> {[panic |-> TRUE, ret |-> GarbageInfo]}]
        ELSE IF kind.panic
        THEN [self |-> self1, calls |-> 0,
              allocs |-> IF found = None THEN 1 ELSE 0, key |-> None,
              rets |-> {[panic |-> TRUE, ret |-> GarbageInfo]}]
        ELSE [self |-> r.self, calls |-> r.calls,
              allocs |-> IF found = None THEN 1 ELSE 0, key |-> Some(key),
              rets |-> r.rets]

get_resource_info_or_insert(self, T) ==
    get_resource_info_or_insert_with(self, T, TypeInfo_of(T))

get_non_send_resource_info_or_insert(self, T) ==
    get_resource_info_or_insert_with(self, T, TypeInfo_of_non_send_and_sync(T))

\* get_component_info_or_insert_with allocating a category without looking
\* the type key up first
get_component_info_or_insert_with_always_alloc(self, type_id, data_layout) ==
    LET alloc == new_dummy_id(self, Some(type_id))
        kind == relkind_of_has_component(alloc.self)
        key == Relship(kind.ret, DummyTarget(alloc.ret))
        r == get_relationship_info_or_insert_with(alloc.self, key, data_layout)
    IN  IF alloc.panic \/ kind.panic
        THEN [self |-> alloc.self, calls |-> 0, allocs |-> 1, key |-> None,
              rets |-> {[panic |-> TRUE, ret |-> GarbageInfo]}]
        ELSE [self |-> r.self, calls |-> r.calls, allocs |-> 1, key |-> Some(key),
              rets |-> r.rets]

get_component_info_or_insert_with(self, type_id, data_layout) ==
    LET found == type_id_to_dummy_id(self, type_id)
        alloc == new_dummy_id(self, Some(type_id))
        self1 == IF found # None THEN self ELSE alloc.self
        component_id == IF found # None THEN found[1] ELSE alloc.ret
        kind == relkind_of_has_component(self1)
        key == Relship(kind.ret, DummyTarget(component_id))
        r == get_relationship_info_or_insert_with(self1, key, data_layout)
    IN  IF found = None /\ alloc.panic
        THEN [self |-> alloc.self, calls |-> 0, allocs |-> 1, key |-> None,
              rets |-> {[panic |-> TRUE, ret |-> GarbageInfo]}]
        ELSE IF kind.panic
        THEN [self |-> self1, calls |-> 0,
              allocs |-> IF found = None THEN 1 ELSE 0, key |-> None,
              rets |-> {[panic |-> TRUE, ret |-> GarbageInfo]}]
        ELSE [self |-> r.self, calls |-> r.calls,
              allocs |-> IF found = None THEN 1 ELSE 0, key |-> Some(key),
              rets |-> r.rets]

get_component_info_or_insert(self, T) ==
    get_component_info_or_insert_with(self, T, TypeInfo_of(T))

get_resource_id(self, type_id) ==
    LET kind == relkind_of_has_resource(self)
        dummy == type_id_to_dummy_id(self, type_id)
    IN  IF kind.panic THEN [panic |-> TRUE, ret |-> None]
        ELSE IF dummy = None THEN [panic |-> FALSE, ret |-> None]
        ELSE [panic |-> FALSE,
              ret |-> get_relationship_id(self, Relship(kind.ret, DummyTarget(dummy[1])))]

\* get_component_id unwrapping the category in place of the `?`
get_component_id_unwrap(self, type_id) ==
    LET kind == relkind_of_has_component(self)
        dummy == type_id_to_dummy_id(self, type_id)
    IN  IF kind.panic THEN [panic |-> TRUE, ret |-> None]
        ELSE IF dummy = None THEN [panic |-> TRUE, ret |-> None]
        ELSE [panic |-> FALSE,
              ret |-> get_relationship_id(self, Relship(kind.ret, DummyTarget(dummy[1])))]

\* get_component_id asking for the has-resource kind
get_component_id_resource_kind(self, type_id) ==
    LET kind == relkind_of_has_resource(self)
        dummy == type_id_to_dummy_id(self, type_id)
    IN  IF kind.panic THEN [panic |-> TRUE, ret |-> None]
        ELSE IF dummy = None THEN [panic |-> FALSE, ret |-> None]
        ELSE [panic |-> FALSE,
              ret |-> get_relationship_id(self, Relship(kind.ret, DummyTarget(dummy[1])))]

get_component_id(self, type_id) ==
    LET kind == relkind_of_has_component(self)
        dummy == type_id_to_dummy_id(self, type_id)
    IN  IF kind.panic THEN [panic |-> TRUE, ret |-> None]
        ELSE IF dummy = None THEN [panic |-> FALSE, ret |-> None]
        ELSE [panic |-> FALSE,
              ret |-> get_relationship_id(self, Relship(kind.ret, DummyTarget(dummy[1])))]

(***************************************************************************)
(* The calls a client of the registry can make.                            *)
(***************************************************************************)

\* the entries of the three Vecs together
Size(self) ==
    Len(self.relationships) + Len(self.kinds) + Len(self.dummy_id_to_type_id)

\* the DummyIds handed out so far
DummyIds == 0 .. (Len(this.dummy_id_to_type_id) - 1)

\* the RelationshipKindIds handed out so far
KindIds == 0 .. (Len(this.kinds) - 1)

\* the categories of Default::default, which name the two built-in kinds
BuiltinDummyIds == {0, 1}

\* the kinds of Default::default
BuiltinKindIds == {0, 1}

\* the keys a client builds from the ids it holds: any kind with a category
\* allocated after construction, and a kind registered after construction
\* with an entity
Relships ==
    {Relship(k, DummyTarget(d)) : k \in KindIds, d \in DummyIds \ BuiltinDummyIds}
        \cup {Relship(k, EntityTarget(e)) : k \in KindIds \ BuiltinKindIds,
                                             e \in Entities}

\* the arguments of the read accessors: every type key, one of them ("B")
\* never registered; every id up to len() + 1; every key, with a kind
\* and a category one past the ones handed out
ReadTypeIds == TypeIds \cup {"B"}
ReadIds == 0 .. (Len(this.relationships) + 1)
ReadRelships ==
    {Relship(k, DummyTarget(d)) : k \in 0 .. Len(this.kinds),
                                  d \in 0 .. Len(this.dummy_id_to_type_id)}
        \cup {Relship(k, EntityTarget(e)) : k \in 0 .. Len(this.kinds),
                                             e \in Entities}

\* the closures passed to get_relationship_info_or_insert_with
TypeInfos == {TypeInfo_of(T) : T \in UserTypes}

\* the descriptors passed to register_relationship
DataLayouts ==
    {DataLayout_new(None, "Table", FALSE, Layout(16, 8), "noop"),
     DataLayout_from_generic("A", "Table")}

\* what a supplied descriptor says, field by field: a DataLayout
\* (register_relationship) as it is, the TypeInfo a closure returns by the
\* fields it shares with a DataLayout (a TypeInfo always has a type id and
\* is always stored in a table)
Supplied(from, val) ==
    IF from = "DataLayout"
    THEN val
    ELSE [name |-> val.type_name, storage_type |-> "Table",
          is_send_and_sync |-> val.is_send_and_sync,
          type_id |-> Some(val.type_id),
          layout |-> Layout(val.layout.size, val.layout.align),
          drop |-> val.drop]

\* pre is the registry before the call; calls counts the invocations of the
\* closure and allocs those of new_dummy_id; repeat says that a typed
\* wrapper had been called for the same type before
Call(op, type_id, key, dummy_id, desc, ret, panic, calls, allocs, repeat) ==
    [op |-> op, type_id |-> type_id, key |-> key, dummy_id |-> dummy_id,
     desc |-> desc, pre |-> this, ret |-> ret, panic |-> panic,
     calls |-> calls, allocs |-> allocs, repeat |-> repeat]

\* what `prev` keeps of a call
Summary(call) ==
    [ret |-> call.ret, calls |-> call.calls, pre |-> call.pre, desc |-> call.desc]

\* prev is set when the call before was the same method with the same key
Again(op, type_id, key) ==
    IF last.op = op /\ last.type_id = type_id /\ last.key = key
       /\ op \in {"register_relationship", "get_relationship_info_or_insert_with"}
    THEN Some(Summary(last))
    ELSE None

Init ==
    /\ this = Relationships_default
    /\ panicked = FALSE
    /\ last = [op |-> "default", type_id |-> None, key |-> None,
               dummy_id |-> None, desc |-> None, pre |-> EmptyRelationships,
               ret |-> None, panic |-> FALSE, calls |-> 0, allocs |-> 2,
               repeat |-> FALSE]
    /\ prev = None
    /\ interned = {}
    /\ first_component = EmptyMap
    /\ first_resource = EmptyMap

NewDummyId(type_id) ==
    /\ ~panicked
    /\ LET r == new_dummy_id(this, type_id) IN
        /\ Size(r.self) <= MaxSize
        /\ this' = r.self
        /\ panicked' = r.panic
        /\ last' = Call("new_dummy_id", type_id, None, None, None,
                        r.ret, r.panic, 0, 1, FALSE)
    /\ prev' = None
    /\ UNCHANGED <<interned, first_component, first_resource>>

NewRelationshipKind(dummy_id) ==
    /\ ~panicked
    /\ LET r == new_relationship_kind(this, dummy_id) IN
        /\ Size(r.self) <= MaxSize
        /\ this' = r.self
        /\ panicked' = r.panic
        /\ last' = Call("new_relationship_kind", None, None, Some(dummy_id), None,
                        r.ret, r.panic, 0, 0, FALSE)
    /\ prev' = None
    /\ UNCHANGED <<interned, first_component, first_resource>>

RegisterRelationship(relationship, comp_descriptor) ==
    /\ ~panicked
    /\ LET r == register_relationship(this, relationship, comp_descriptor) IN
        /\ Size(r.self) <= MaxSize
        /\ \E o \in r.rets :
             /\ this' = r.self
             /\ panicked' = o.panic
             /\ last' = Call("register_relationship", None, Some(relationship),
                             None, Some(comp_descriptor), o.ret, o.panic, 0, 0, FALSE)
             /\ interned' = IF ~o.panic /\ o.ret.tag = "Ok"
                             THEN interned \cup {[key |-> relationship,
                                                  id |-> o.ret.val.id,
                                                  desc |-> Supplied("DataLayout",
                                                                    comp_descriptor)]}
                             ELSE interned
    /\ prev' = Again("register_relationship", None, Some(relationship))
    /\ UNCHANGED <<first_component, first_resource>>

GetRelationshipInfoOrInsertWith(relationship, data_layout) ==
    /\ ~panicked
    /\ LET r == get_relationship_info_or_insert_with(this, relationship, data_layout) IN
        /\ Size(r.self) <= MaxSize
        /\ \E o \in r.rets :
             /\ this' = r.self
             /\ panicked' = o.panic
             /\ last' = Call("get_relationship_info_or_insert_with", None,
                             Some(relationship), None, Some(data_layout),
                             o.ret, o.panic, r.calls, 0, FALSE)
             /\ interned' = IF ~o.panic /\ r.calls > 0
                             THEN interned \cup {[key |-> relationship,
                                                  id |-> o.ret.id,
                                                  desc |-> Supplied("TypeInfo",
                                                                    data_layout)]}
                             ELSE interned
    /\ prev' = Again("get_relationship_info_or_insert_with", None, Some(relationship))
    /\ UNCHANGED <<first_component, first_resource>>

\* the part the three typed wrappers share: r is the outcome of the wrapper
\* and data_layout the TypeInfo its closure returns
Wrapper(op, T, r, data_layout, first, other) ==
    /\ ~panicked
    /\ Size(r.self) <= MaxSize
    /\ \E o \in r.rets :
         /\ this' = r.self
         /\ panicked' = o.panic
         /\ last' = Call(op, Some(T), r.key, None, None, o.ret, o.panic,
                         r.calls, r.allocs, T \in DOMAIN first)
         /\ interned' = IF ~o.panic /\ r.calls > 0
                         THEN interned \cup {[key |-> r.key[1], id |-> o.ret.id,
                                              desc |-> Supplied("TypeInfo",
                                                                data_layout)]}
                         ELSE interned
         /\ first' = IF ~o.panic /\ T \notin DOMAIN first
                      THEN MapInsert(first, T, [info |-> o.ret, allocs |-> r.allocs,
                                               calls |-> r.calls])
                      ELSE first
    /\ prev' = None
    /\ UNCHANGED other

GetComponentInfoOrInsert(T) ==
    Wrapper("get_component_info_or_insert", T,
            get_component_info_or_insert(this, T), TypeInfo_of(T),
            first_component, first_resource)

GetResourceInfoOrInsert(T) ==
    Wrapper("get_resource_info_or_insert", T,
            get_resource_info_or_insert(this, T), TypeInfo_of(T),
            first_resource, first_component)

GetNonSendResourceInfoOrInsert(T) ==
    Wrapper("get_non_send_resource_info_or_insert", T,
            get_non_send_resource_info_or_insert(this, T),
            TypeInfo_of_non_send_and_sync(T), first_resource, first_component)

\* The five read accessors, each called with every argument.  They take
\* &self: the registry is the same after the calls.  ret holds, per
\* accessor, what it returns for each argument.
ReadAccessors ==
    /\ ~panicked
    /\ this' = this
    /\ LET panic == \E t \in ReadTypeIds : \/ get_component_id(this, t).panic
                                           \/ get_resource_id(this, t).panic
           ret == [type_id_to_dummy_id |->
                       [t \in ReadTypeIds |-> type_id_to_dummy_id(this, t)],
                   get_relationship_id |->
                       [k \in ReadRelships |-> get_relationship_id(this, k)],
                   get_relationship_info |->
                       [id \in ReadIds |-> get_relationship_info(this, id)],
                   get_component_id |->
                       [t \in ReadTypeIds |-> get_component_id(this, t).ret],
                   get_resource_id |->
                       [t \in ReadTypeIds |-> get_resource_id(this, t).ret]]
       IN  /\ panicked' = panic
           /\ last' = Call("read_accessors", None, None, None, None,
                           ret, panic, 0, 0, FALSE)
    /\ prev' = None
    /\ UNCHANGED <<interned, first_component, first_resource>>

Next ==
    \/ ReadAccessors
    \/ \E type_id \in {None} \cup {Some(T) : T \in TypeIds} : NewDummyId(type_id)
    \/ \E dummy_id \in DummyIds : NewRelationshipKind(dummy_id)
    \/ \E relationship \in Relships, d \in DataLayouts :
          RegisterRelationship(relationship, d)
    \/ \E relationship \in Relships, f \in TypeInfos :
          GetRelationshipInfoOrInsertWith(relationship, f)
    \/ \E T \in UserTypes : GetComponentInfoOrInsert(T)
    \/ \E T \in UserTypes : GetResourceInfoOrInsert(T)
    \/ \E T \in UserTypes : GetNonSendResourceInfoOrInsert(T)

Spec == Init /\ [][Next]_vars

(***************************************************************************)
(* Properties.                                                             *)
(***************************************************************************)

InsertOps ==
    {"get_relationship_info_or_insert_with", "get_component_info_or_insert",
     "get_resource_info_or_insert", "get_non_send_resource_info_or_insert"}

\* C1: calling get_relationship_info_or_insert_with twice in a row with the
\* same key returns the same relationship id both times, and the closure is
\* invoked once over the two calls if the key was absent before the first
\* call and not at all if it was present.
C1_GetOrInsertIdempotent ==
    (last.op = "get_relationship_info_or_insert_with" /\ prev # None) =>
        /\ ~last.panic
        /\ last.ret.id = prev[1].ret.id
        /\ prev[1].calls + last.calls <= 1
        /\ prev[1].calls + last.calls =
              IF last.key[1] \in DOMAIN prev[1].pre.relationship_indices
              THEN 0 ELSE 1

C1_Witness ==
    /\ last.op = "get_relationship_info_or_insert_with"
    /\ prev # None
    /\ last.key[1] \notin DOMAIN prev[1].pre.relationship_indices
    /\ last.calls = 0

\* C2: register_relationship with a key that an earlier
\* register_relationship interned (or any other insert) returns
\* RelationshipAlreadyExists and leaves the registry exactly as it was before
\* the call.
C2_StrictRegistration ==
    (/\ last.op = "register_relationship"
     /\ last.key[1] \in DOMAIN last.pre.relationship_indices) =>
        /\ ~last.panic
        /\ last.ret.tag = "Err"
        /\ last.ret.val.error = "RelationshipAlreadyExists"
        /\ this = last.pre

\* register_relationship(k, d) succeeded and register_relationship(k, d')
\* with another descriptor followed
C2_Witness ==
    /\ last.op = "register_relationship"
    /\ last.ret.tag = "Err"
    /\ prev # None
    /\ prev[1].ret.tag = "Ok"
    /\ prev[1].desc # last.desc

\* C3: any two distinct keys in relationship_indices map to distinct
\* relationship ids.
C3_RelationshipIdInjective ==
    \A k1, k2 \in DOMAIN this.relationship_indices :
        k1 # k2 => this.relationship_indices[k1] # this.relationship_indices[k2]

\* a typed wrapper interned one key and register_relationship another
C3_Witness ==
    /\ last.op = "register_relationship"
    /\ last.ret.tag = "Ok"
    /\ \E T \in DOMAIN first_component : first_component[T].calls = 1
    /\ Cardinality(DOMAIN this.relationship_indices) >= 2

\* C4: any two distinct type keys in type_id_to_dummy_id map to distinct
\* category ids.
C4_CategoryIdInjective ==
    \A t1, t2 \in DOMAIN this.type_id_to_dummy_id :
        t1 # t2 => this.type_id_to_dummy_id[t1] # this.type_id_to_dummy_id[t2]

C4_Witness ==
    /\ Cardinality(DOMAIN this.type_id_to_dummy_id) >= 3
    /\ ~panicked

\* get_relationship_info(id) gives an info with that id and the key, and
\* get_relationship_id(key) gives the id
RoundTrip(key, id) ==
    /\ get_relationship_info(this, id) # None
    /\ get_relationship_info(this, id)[1].id = id
    /\ get_relationship_info(this, id)[1].relationship = key
    /\ get_relationship_id(this, key) = Some(id)

\* C5: an id an insert operation returned for a key resolves, in the state
\* of the return and in every later state, to an info with that id and that
\* key, and the key looks up to that id.
C5_RoundTrip ==
    /\ \A e \in interned : RoundTrip(e.key, e.id)
    /\ (last.op \in InsertOps /\ ~last.panic) =>
           RoundTrip(last.key[1], last.ret.id)
    /\ (last.op = "register_relationship" /\ ~last.panic /\ last.ret.tag = "Ok") =>
           RoundTrip(last.key[1], last.ret.val.id)

\* an id returned earlier, after more calls, and an id returned now
C5_Witness ==
    /\ Cardinality(interned) >= 2
    /\ last.op \in InsertOps
    /\ last.calls = 0
    /\ \E e \in interned : e.key = last.key[1] /\ e.id = 0

\* C6: a key that was assigned an id keeps it and the id keeps resolving in
\* every later state; calling the component wrapper again for a type returns
\* the id of the first call and does not grow the relationship count.
C6_IdStability ==
    /\ \A e \in interned :
          /\ get_relationship_id(this, e.key) = Some(e.id)
          /\ get_relationship_info(this, e.id) # None
    /\ (last.op = "get_component_info_or_insert" /\ last.repeat /\ ~last.panic) =>
          /\ last.ret.id = first_component[last.type_id[1]].info.id
          /\ len(this) = len(last.pre)

IsPrefix(s, t) ==
    /\ Len(s) <= Len(t)
    /\ \A i \in 1 .. Len(s) : s[i] = t[i]

IsSubMap(m, n) ==
    /\ DOMAIN m \subseteq DOMAIN n
    /\ \A k \in DOMAIN m : m[k] = n[k]

\* C7: a call that returns only adds entries: every entry of every table
\* and reverse index before the call is there, with the same value, after it.
C7_AppendOnly ==
    ~last.panic =>
    /\ IsPrefix(last.pre.relationships, this.relationships)
    /\ IsSubMap(last.pre.relationship_indices, this.relationship_indices)
    /\ IsPrefix(last.pre.kinds, this.kinds)
    /\ IsSubMap(last.pre.kind_indices, this.kind_indices)
    /\ IsPrefix(last.pre.dummy_id_to_type_id, this.dummy_id_to_type_id)
    /\ IsSubMap(last.pre.type_id_to_dummy_id, this.type_id_to_dummy_id)

\* C8: the registry Default::default builds has exactly two kinds, the one
\* of has-component and the one of has-resource, each indexed by its own
\* category, which its type key maps to; the two accessors differ; no
\* relationship is interned.
C8_Bootstrap ==
    last.op = "default" =>
        /\ Len(this.kinds) = 2
        /\ DOMAIN this.type_id_to_dummy_id = {HasComponent, HasResource}
        /\ this.type_id_to_dummy_id[HasComponent] # this.type_id_to_dummy_id[HasResource]
        /\ DOMAIN this.kind_indices =
              {this.type_id_to_dummy_id[HasComponent],
               this.type_id_to_dummy_id[HasResource]}
        /\ ~relkind_of_has_component(this).panic
        /\ ~relkind_of_has_resource(this).panic
        /\ relkind_of_has_component(this).ret # relkind_of_has_resource(this).ret
        /\ {relkind_of_has_component(this).ret, relkind_of_has_resource(this).ret}
              = {this.kinds[i].id : i \in 1 .. Len(this.kinds)}
        /\ len(this) = 0
        /\ is_empty(this)

C8_Witness ==
    /\ last.op = "default"
    /\ Len(this.dummy_id_to_type_id) = 2

\* C9: there is one kind id per category that defines a kind: as many kind
\* ids as categories in kind_indices, and kind_indices leads to every one.
C9_KindUniqueness ==
    /\ Len(this.kinds) = Cardinality(DOMAIN this.kind_indices)
    /\ \A i \in 1 .. Len(this.kinds) :
          \E c \in DOMAIN this.kind_indices : this.kind_indices[c] = this.kinds[i].id

\* the categories allocated for a type key
CategoriesOf(T) ==
    {i \in 1 .. Len(this.dummy_id_to_type_id) :
        this.dummy_id_to_type_id[i].rust_type = Some(T)}

\* C10: a type registered through the component wrapper and through a
\* resource wrapper, in either order, has two different relationship ids,
\* whose keys have the same category as target and different kinds, and one
\* category was allocated for its type key.
C10_ComponentVersusResource ==
    \A T \in DOMAIN first_component \cap DOMAIN first_resource :
        LET c == first_component[T]
            r == first_resource[T]
        IN  /\ c.info.id # r.info.id
            /\ c.info.relationship.target = r.info.relationship.target
            /\ c.info.relationship.target.tag = "DummyId"
            /\ c.info.relationship.kind # r.info.relationship.kind
            /\ c.allocs + r.allocs <= 1
            /\ ~panicked => Cardinality(CategoriesOf(T)) = 1

C10_Witness ==
    /\ ~panicked
    /\ \E T \in DOMAIN first_component \cap DOMAIN first_resource :
          first_component[T].allocs + first_resource[T].allocs = 1

\* C11: register_relationship with a key that is in the registry, whichever
\* call interned it, returns Err(RelationshipAlreadyExists) carrying that
\* key; with a key that is not, it returns Ok with the new entry: the next
\* id, the key and the descriptor supplied, which is the entry now stored.
C11_RegisterAgainstAnyKey ==
    last.op = "register_relationship" =>
        /\ ~last.panic
        /\ IF last.key[1] \in DOMAIN last.pre.relationship_indices
           THEN last.ret = Err(RelationshipAlreadyExists(last.key[1]))
           ELSE /\ last.ret = Ok([id |-> Len(last.pre.relationships),
                                  relationship |-> last.key[1],
                                  data |-> last.desc[1]])
                /\ get_relationship_info(this, last.ret.val.id) = Some(last.ret.val)

\* register_relationship on the key a resource wrapper interned
C11_Witness ==
    /\ last.op = "register_relationship"
    /\ last.ret.tag = "Err"
    /\ \E T \in DOMAIN first_resource :
          /\ first_resource[T].calls = 1
          /\ first_resource[T].info.relationship = last.key[1]

\* C12: new_dummy_id(Some(t)) for a type key t that type_id_to_dummy_id
\* already holds panics; it does not return.
C12_DuplicateTypeKeyPanics ==
    (/\ last.op = "new_dummy_id"
     /\ last.type_id # None
     /\ last.type_id[1] \in DOMAIN last.pre.type_id_to_dummy_id) =>
        /\ last.panic
        /\ panicked

\* new_dummy_id for the type key of a user type a wrapper registered
C12_Witness ==
    /\ last.op = "new_dummy_id"
    /\ last.type_id # None
    /\ last.type_id[1] \in UserTypes
    /\ last.type_id[1] \in DOMAIN last.pre.type_id_to_dummy_id
    /\ panicked

\* C13: the read accessors do not panic, leave the registry as it was, and
\* return None for a type key no category was allocated for, for a key no
\* call interned and for an id no call returned (ids from len() on).
C13_ReadAccessorsTotal ==
    last.op = "read_accessors" =>
        /\ ~last.panic
        /\ this = last.pre
        /\ \A t \in ReadTypeIds :
              CategoriesOf(t) = {} =>
                  /\ last.ret.type_id_to_dummy_id[t] = None
                  /\ last.ret.get_component_id[t] = None
                  /\ last.ret.get_resource_id[t] = None
        /\ \A k \in ReadRelships :
              k \notin {e.key : e \in interned} =>
                  last.ret.get_relationship_id[k] = None
        /\ \A id \in ReadIds :
              (id >= len(this) \/ id \notin {e.id : e \in interned}) =>
                  last.ret.get_relationship_info[id] = None

\* the accessors on a registry with entries: get_relationship_info asked
\* for the last id and for the two ids past it, get_component_id for a type
\* key that was never registered
C13_Witness ==
    /\ last.op = "read_accessors"
    /\ len(this) >= 1
    /\ last.ret.get_relationship_info[len(this) - 1] # None
    /\ last.ret.get_relationship_info[len(this)] = None
    /\ last.ret.get_relationship_info[len(this) + 1] = None
    /\ last.ret.get_component_id["B"] = None

\* C14: get_relationship_info_or_insert_with, called directly or by a typed
\* wrapper, does not panic and returns an info whose key is the key asked
\* for, which is the info stored under the id it carries.
C14_GetOrInsertNeverFails ==
    last.op \in InsertOps =>
        /\ ~last.panic
        /\ last.ret.relationship = last.key[1]
        /\ get_relationship_info(this, last.ret.id) = Some(last.ret)

\* a hit on a key register_relationship interned with raw parts
C14_Witness ==
    /\ last.op = "get_relationship_info_or_insert_with"
    /\ last.calls = 0
    /\ last.ret.data.type_id = None
    /\ last.ret.relationship = last.key[1]

\* C15: the descriptor an id resolves to is, in every state after the
\* insert, the one supplied when the key was interned (size 16 and
\* alignment 8 for raw parts built with them), and the insert returns it.
C15_DescriptorFidelity ==
    /\ \A e \in interned :
          /\ get_relationship_info(this, e.id) # None
          /\ get_relationship_info(this, e.id)[1].data = e.desc
          /\ e.desc = DataLayout_new(None, "Table", FALSE, Layout(16, 8), "noop") =>
                /\ get_relationship_info(this, e.id)[1].data.layout.size = 16
                /\ get_relationship_info(this, e.id)[1].data.layout.align = 8
                /\ get_relationship_info(this, e.id)[1].data.type_id = None
    /\ (last.op = "register_relationship" /\ ~last.panic /\ last.ret.tag = "Ok") =>
          last.ret.val.data = last.desc[1]
    /\ (last.op = "get_relationship_info_or_insert_with" /\ ~last.panic
          /\ last.calls = 1) =>
          last.ret.data = Supplied("TypeInfo", last.desc[1])

\* raw parts of size 16 and alignment 8 registered for the has-component
\* kind and a category without type key, then get-or-insert on that key
\* with the closure of a type
C15_Witness ==
    /\ last.op = "get_relationship_info_or_insert_with"
    /\ ~last.panic
    /\ \E e \in interned :
          /\ e.key = last.key[1]
          /\ e.key.kind = relkind_of_has_component(Relationships_default).ret
          /\ e.key.target.tag = "DummyId"
          /\ this.dummy_id_to_type_id[e.key.target.id + 1].rust_type = None
          /\ get_relationship_info(this, e.id)[1].data.layout = Layout(16, 8)

\* the ids of the kinds table
KindIdsOf(self) == {self.kinds[i].id : i \in 1 .. Len(self.kinds)}

\* C16: new_relationship_kind does not look for a kind the category
\* already has: every call appends one kind and returns an id no kind had
\* before, so a call for a category that has a kind returns a second,
\* different kind id for it, and both ids are in the kinds table.
C16_NoDuplicateDetection ==
    last.op = "new_relationship_kind" =>
        /\ ~last.panic
        /\ Len(this.kinds) = Len(last.pre.kinds) + 1
        /\ last.ret \notin KindIdsOf(last.pre)
        /\ last.ret \in KindIdsOf(this)
        /\ this.kind_indices[last.dummy_id[1]] = last.ret
        /\ last.dummy_id[1] \in DOMAIN last.pre.kind_indices =>
              /\ last.pre.kind_indices[last.dummy_id[1]] # last.ret
              /\ last.pre.kind_indices[last.dummy_id[1]] \in KindIdsOf(this)

\* the second of two calls a client made for one category: four kinds, the
\* two of Default::default and the two of the calls
C16_Witness ==
    /\ last.op = "new_relationship_kind"
    /\ last.dummy_id[1] \in DOMAIN last.pre.kind_indices
    /\ last.pre.kind_indices[last.dummy_id[1]] \notin BuiltinKindIds
    /\ Len(this.kinds) = 4

\* C17: the ids of the relationships are 0 .. len() - 1, each info at the
\* index of its id; relationship_indices has len() keys and the ids returned
\* by inserts are those ids; an insert of a new key returns the count before
\* the call, and a failed register_relationship or a hit of get-or-insert
\* leaves the count as it was.
C17_DenseRelationshipIds ==
    /\ \A i \in 1 .. len(this) : this.relationships[i].id = i - 1
    /\ {this.relationship_indices[k] : k \in DOMAIN this.relationship_indices}
          = 0 .. (len(this) - 1)
    /\ Cardinality(DOMAIN this.relationship_indices) = len(this)
    /\ {e.id : e \in interned} = 0 .. (len(this) - 1)
    /\ Cardinality({e.key : e \in interned}) = len(this)
    /\ (last.op = "register_relationship" /\ ~last.panic) =>
          IF last.ret.tag = "Ok"
          THEN /\ last.ret.val.id = len(last.pre)
               /\ len(this) = len(last.pre) + 1
          ELSE len(this) = len(last.pre)
    /\ (last.op \in InsertOps /\ ~last.panic) =>
          IF last.calls = 1
          THEN /\ last.ret.id = len(last.pre)
               /\ len(this) = len(last.pre) + 1
          ELSE len(this) = len(last.pre)

\* a failed register_relationship on a registry with two relationships
C17_Witness ==
    /\ last.op = "register_relationship"
    /\ last.ret.tag = "Err"
    /\ len(this) = 2
    /\ {e.id : e \in interned} = {0, 1}

\* a key of that kind with a category of T as target was interned
RegisteredAs(kind, T) ==
    \E e \in interned, c \in CategoriesOf(T) :
        e.key = Relship(kind, DummyTarget(c - 1))

\* C18: get_component_id(T) is None while no key (has-component kind,
\* category of T) was interned, also when T was registered as a resource,
\* and right after get_component_info_or_insert::<T>() it is the id of the
\* info returned; the same for get_resource_id and the resource wrappers.
C18_LookupAgreesWithInsert ==
    ~panicked =>
    /\ \A T \in ReadTypeIds :
          /\ ~get_component_id(this, T).panic
          /\ ~get_resource_id(this, T).panic
          /\ ~RegisteredAs(relkind_of_has_component(this).ret, T) =>
                get_component_id(this, T).ret = None
          /\ ~RegisteredAs(relkind_of_has_resource(this).ret, T) =>
                get_resource_id(this, T).ret = None
    /\ last.op = "get_component_info_or_insert" =>
          get_component_id(this, last.type_id[1]).ret = Some(last.ret.id)
    /\ last.op \in {"get_resource_info_or_insert",
                    "get_non_send_resource_info_or_insert"} =>
          get_resource_id(this, last.type_id[1]).ret = Some(last.ret.id)

\* T was registered as a resource, which allocated its category, and not
\* as a component
C18_Witness ==
    /\ last.op = "get_resource_info_or_insert"
    /\ last.allocs = 1
    /\ first_component = EmptyMap
    /\ get_component_id(this, last.type_id[1]).ret = None
    /\ get_resource_id(this, last.type_id[1]).ret = Some(last.ret.id)

\* C19: a new_dummy_id that returns gives the number of categories before
\* the call, as does the one a typed wrapper makes; the categories of
\* Default::default are 0 and 1; a call without type key leaves
\* type_id_to_dummy_id as it was, and type_id_to_dummy_id gives no category
\* that has no type key.
C19_DenseCategoryIds ==
    /\ (last.op = "new_dummy_id" /\ ~last.panic) =>
          /\ last.ret = Len(last.pre.dummy_id_to_type_id)
          /\ Len(this.dummy_id_to_type_id) = last.ret + 1
          /\ last.type_id = None =>
                this.type_id_to_dummy_id = last.pre.type_id_to_dummy_id
    /\ (last.op \in InsertOps /\ last.allocs = 1 /\ ~last.panic) =>
          last.key[1].target = DummyTarget(Len(last.pre.dummy_id_to_type_id))
    /\ \A i \in 1 .. Len(this.dummy_id_to_type_id) :
          /\ this.dummy_id_to_type_id[i].id = i - 1
          /\ this.dummy_id_to_type_id[i].rust_type = None =>
                \A t \in ReadTypeIds : type_id_to_dummy_id(this, t) # Some(i - 1)
    /\ this.dummy_id_to_type_id[1].rust_type = Some(HasComponent)
    /\ this.dummy_id_to_type_id[2].rust_type = Some(HasResource)
    /\ last.op = "default" =>
          /\ type_id_to_dummy_id(this, HasComponent) = Some(0)
          /\ type_id_to_dummy_id(this, HasResource) = Some(1)

\* a category without type key allocated after one with a type key
C19_Witness ==
    /\ last.op = "new_dummy_id"
    /\ last.type_id = None
    /\ last.ret = 3
    /\ DOMAIN this.type_id_to_dummy_id # {HasComponent, HasResource}

\* C20: in every state reached without a panic relkind_of_has_component and
\* relkind_of_has_resource return what they return on the registry of
\* Default::default, and the two differ.
C20_BuiltinKindsStable ==
    ~panicked =>
        /\ relkind_of_has_component(this) =
              relkind_of_has_component(Relationships_default)
        /\ relkind_of_has_resource(this) =
              relkind_of_has_resource(Relationships_default)
        /\ relkind_of_has_component(this).ret # relkind_of_has_resource(this).ret

\* C21: a call that returns leaves get_component_id(T) as it was when it
\* was Some(r) before the call, and so get_resource_id(T); hence an id the
\* lookup once gave is the id it gives in every later state.
C21_TypedLookupStable ==
    [][~panicked' =>
          \A T \in ReadTypeIds :
              /\ get_component_id(this, T).ret # None =>
                    get_component_id(this', T) = get_component_id(this, T)
              /\ get_resource_id(this, T).ret # None =>
                    get_resource_id(this', T) = get_resource_id(this, T)]_vars

ResourceOps ==
    {"get_resource_info_or_insert", "get_non_send_resource_info_or_insert"}

\* C22: a resource wrapper called for a type a resource wrapper was called
\* for before, the same one or the other, returns the info of the first
\* call, with its id and its is_send_and_sync, and does not invoke its
\* closure; the stored descriptor keeps the is_send_and_sync of the first
\* call.
C22_FirstResourceRegistrationWins ==
    /\ (last.op \in ResourceOps /\ last.repeat /\ ~last.panic) =>
          LET f == first_resource[last.type_id[1]].info IN
          /\ last.calls = 0
          /\ last.ret.id = f.id
          /\ last.ret.data.is_send_and_sync = f.data.is_send_and_sync
    /\ \A T \in DOMAIN first_resource :
          LET f == first_resource[T].info IN
          /\ get_relationship_info(this, f.id) # None
          /\ get_relationship_info(this, f.id)[1].data.is_send_and_sync =
                f.data.is_send_and_sync

WrapperOps == ResourceOps \cup {"get_component_info_or_insert"}

\* C23: in a state reached by calls that returned, the typed wrappers, the
\* typed lookups and the kind accessors do not panic: a wrapper allocates a
\* category only for a type key type_id_to_dummy_id does not hold, and the
\* type keys HasComponent and HasResource and their categories are in the
\* maps the kind accessors index.
C23_WrappersNeverPanic ==
    /\ last.op \in WrapperOps =>
          /\ ~last.panic
          /\ last.allocs = 1 =>
                last.type_id[1] \notin DOMAIN last.pre.type_id_to_dummy_id
    /\ ~panicked =>
          /\ ~relkind_of_has_component(this).panic
          /\ ~relkind_of_has_resource(this).panic
          /\ {HasComponent, HasResource} \subseteq DOMAIN this.type_id_to_dummy_id
          /\ {this.type_id_to_dummy_id[HasComponent],
              this.type_id_to_dummy_id[HasResource]}
                \subseteq DOMAIN this.kind_indices
          /\ \A T \in ReadTypeIds :
                /\ ~get_component_id(this, T).panic
                /\ ~get_resource_id(this, T).panic

\* the component wrapper for a type key whose category the client allocated
\* with new_dummy_id, after new_relationship_kind gave the has-component
\* category another kind
C23_Witness ==
    /\ last.op = "get_component_info_or_insert"
    /\ ~last.panic
    /\ last.allocs = 0
    /\ ~last.repeat
    /\ first_resource = EmptyMap
    /\ relkind_of_has_component(last.pre).ret \notin BuiltinKindIds

\* C24: every id in relationship_indices is below relationships.len(), so
\* the read of get_relationship_info_unchecked at such an id is in bounds
\* and gives the stored info; register_relationship and
\* get_relationship_info_or_insert_with, which call it, do not panic and
\* return a stored info.
C24_UncheckedInBounds ==
    /\ \A k \in DOMAIN this.relationship_indices :
          /\ this.relationship_indices[k] \in 0 .. (len(this) - 1)
          /\ get_relationship_info_unchecked(this, this.relationship_indices[k])
                = {[panic |-> FALSE,
                    info |-> this.relationships[this.relationship_indices[k] + 1]]}
    /\ last.op = "register_relationship" =>
          /\ ~last.panic
          /\ last.ret.tag = "Ok" =>
                \E i \in 1 .. len(this) : last.ret.val = this.relationships[i]
    /\ last.op \in InsertOps =>
          /\ ~last.panic
          /\ \E i \in 1 .. len(this) : last.ret = this.relationships[i]

\* register_relationship pushed a second info and read it back
C24_Witness ==
    /\ last.op = "register_relationship"
    /\ last.ret.tag = "Ok"
    /\ last.ret.val.id = 1
    /\ len(this) = 2
    /\ get_relationship_info_unchecked(this, 1) =
          {[panic |-> FALSE, info |-> last.ret.val]}

====
